---- MODULE Spec2Model ----
(***************************************************************************)
(* Model of torchdata/cachers.py: the Cacher interface and its three       *)
(* backends, Memory (a dictionary), Pickle (one pickle file per index in a *)
(* folder) and Tensor (one torch.save file per index in a folder).         *)
(*                                                                         *)
(* A behaviour is the sequence of calls a client makes on the cacher it    *)
(* has constructed.  Every handler is one action; the call and its outcome *)
(* (the value returned or the exception raised) are recorded in ret.       *)
(* Python values are written as strings: "None", "True", "False", "self".  *)
(***************************************************************************)
EXTENDS Integers, Sequences, FiniteSets

VARIABLES
    procs,      \* the calls in progress, step by step, of concurrent processes
    live,       \* the cachers the client has constructed (by class name)
    cache,      \* Memory.cache: the dictionary index -> data
    dirExists,  \* whether the folder self.path exists on disk
    files,      \* the regular files of the folder: file name -> bytes
    entered,    \* the disk cachers whose with-block is open
    ret,        \* the last call made and its outcome
    prev        \* the call made before it

vars == <<live, cache, dirExists, files, entered, ret, prev, procs>>

\* ------------------------------------------------------------------ bounds

\* Sample indices are 0..MaxIndex.
MaxIndex == 1

Indices == 0..MaxIndex

\* The samples a dataset generates (opaque, picklable objects).
Values == {"a", "b"}

\* ------------------------------------------------------------ python values

None == "None"

Return(value) == <<"return", value>>

Raise(exception) == <<"raise", exception>>

Bool(b) == IF b THEN "True" ELSE "False"

EmptyDict == [i \in {} |-> None]

\* ---------------------------------------------------------------- file names

Digit(d) == <<"0", "1", "2", "3", "4", "5", "6", "7", "8", "9">>[d + 1]

\* str(index) of a non-negative int: its decimal digits.
RECURSIVE Str(_)
Str(index) ==
    IF index < 10 THEN <<Digit(index)>>
    ELSE Str(index \div 10) \o <<Digit(index % 10)>>

\* The default of Pickle's extension argument.
PickleExtension == <<".", "p", "k", "l">>

\* A Tensor whose extension defaults to Pickle's.
TensorExtensionPkl == <<".", "p", "k", "l">>

\* The default of Tensor's extension argument.
TensorExtension == <<".", "p", "t">>

\* PurePath.suffix of a file name: from its last dot, unless the name starts
\* or ends with that dot (or has none).
Suffix(name) ==
    LET dots == {k \in 1..Len(name) : name[k] = "."}
        last == CHOOSE k \in dots : \A j \in dots : j <= k
    IN  IF dots = {} \/ last = 1 \/ last = Len(name) THEN <<>>
        ELSE SubSeq(name, last, Len(name))

\* PurePath.with_suffix(extension) on a file name.
WithSuffix(name, extension) ==
    SubSeq(name, 1, Len(name) - Len(Suffix(name))) \o extension

\* A file name that leaves the index out: every sample shares one file.
PickleFileConstant(index) == WithSuffix(<<"c", "a", "c", "h", "e">>, PickleExtension)

\* (self.path / str(index)).with_suffix(self.extension), within self.path.
PickleFile(index) == WithSuffix(Str(index), PickleExtension)

\* A file name without the with_suffix call.
TensorFileStem(index) == Str(index)

TensorFile(index) == WithSuffix(Str(index), TensorExtension)

\* pathlib.Path(...).is_file()
IsFile(name) == dirExists /\ name \in DOMAIN files

\* ------------------------------------------------------------------- codecs

\* pickle.dump(data, file): the bytes written, the protocol header, the
\* pickled object and the STOP opcode.
PickleDump(data) == <<"PROTO", data, "STOP">>

\* pickle.load(file): the first pickled object of the file (it stops reading
\* at STOP), or an error on empty or truncated input.
PickleLoad(bytes) ==
    IF bytes = <<>> THEN Raise("EOFError")
    ELSE IF Len(bytes) >= 3 /\ bytes[1] = "PROTO" /\ bytes[3] = "STOP"
         THEN Return(bytes[2])
         ELSE Raise("UnpicklingError")

\* torch.save(data, f, pickle_module, pickle_protocol): an archive of the
\* pickled object, closed by its directory record.
TorchSave(data) == <<"ZIP", data, "EOCD">>

\* torch.load(f, map_location, pickle_module, **pickle_load_args)
TorchLoad(bytes) ==
    IF bytes = <<>> THEN Raise("EOFError")
    ELSE IF Len(bytes) = 3 /\ bytes[1] = "ZIP" /\ bytes[3] = "EOCD"
         THEN Return(bytes[2])
         ELSE Raise("RuntimeError")

\* A file opened with "ab": the bytes written follow the old content.
WriteFileAppend(name, bytes, written) ==
    [n \in DOMAIN files \cup {name} |->
        IF n = name
        THEN (IF n \in DOMAIN files THEN files[n] ELSE <<>>)
             \o SubSeq(bytes, 1, written)
        ELSE files[n]]

\* open(name, "wb") then a write of which only the first `written` bytes
\* reached the file before the with-block closed it.
WriteFile(name, bytes, written) ==
    [n \in DOMAIN files \cup {name} |->
        IF n = name THEN SubSeq(bytes, 1, written) ELSE files[n]]

\* A write that stops short ends in an error (disk full, unpicklable data).
WriteOutcome(bytes, written) ==
    IF written = Len(bytes) THEN Return(None) ELSE Raise("OSError")

\* --------------------------------------------------------------------- calls

\* A call on cacher `on` with its arguments (-1 and None where it has none),
\* its outcome, and the calls on self its body made.
Call(op, on, index, data, out, calls) ==
    [op |-> op, on |-> on, index |-> index, data |-> data, out |-> out,
     calls |-> calls]

\* The call returns: ret holds it, prev the call before. A call made in one
\* piece leaves no process in the middle of a handler.
Record(call) == ret' = call /\ prev' = ret /\ UNCHANGED procs

\* What a handler leaves on disk, and how it ends.
Disk(dir, fs, out) == [dir |-> dir, files |-> fs, out |-> out]

Apply(result) == dirExists' = result.dir /\ files' = result.files

\* -------------------------------------------------------------------- Memory

\* Memory.__contains__
MemoryHas(index) == index \in DOMAIN cache

\* A __setitem__ that rebinds self.cache to a new dictionary.
MemoryPutOnly(index, data) == [i \in {index} |-> data]

\* Memory.__setitem__
MemoryPut(index, data) ==
    [i \in DOMAIN cache \cup {index} |-> IF i = index THEN data ELSE cache[i]]

\* A __getitem__ written with self.cache.get(index).
MemoryGetDefault(index) ==
    IF index \in DOMAIN cache THEN Return(cache[index]) ELSE Return(None)

\* Memory.__getitem__
MemoryGet(index) ==
    IF index \in DOMAIN cache THEN Return(cache[index]) ELSE Raise("KeyError")

MemoryInit ==
    /\ "Memory" \in live
    /\ cache' = EmptyDict
    /\ Record(Call("init", "Memory", -1, None, Return(None), <<>>))
    /\ UNCHANGED <<live, dirExists, files, entered>>

MemoryContains(index) ==
    /\ "Memory" \in live
    /\ Record(Call("contains", "Memory", index, None,
                   Return(Bool(MemoryHas(index))), <<>>))
    /\ UNCHANGED <<live, cache, dirExists, files, entered>>

MemorySetItem(index, data) ==
    /\ "Memory" \in live
    /\ cache' = MemoryPut(index, data)
    /\ Record(Call("store", "Memory", index, data, Return(None), <<>>))
    /\ UNCHANGED <<live, dirExists, files, entered>>

MemoryGetItem(index) ==
    /\ "Memory" \in live
    /\ Record(Call("load", "Memory", index, None, MemoryGet(index), <<>>))
    /\ UNCHANGED <<live, cache, dirExists, files, entered>>

\* -------------------------------------------------------------------- Pickle

\* Pickle.__init__: self.path.mkdir(parents=True, exist_ok=True)
PickleMade == Disk(TRUE, files, Return(None))

\* Pickle.__contains__
PickleHas(index) == IsFile(PickleFile(index))

\* A __setitem__ that creates the missing folder before it writes.
PickleStoredMakedirs(index, data, written) ==
    Disk(TRUE,
         WriteFile(PickleFile(index), PickleDump(data), written),
         WriteOutcome(PickleDump(data), written))

\* Pickle.__setitem__: open(..., "wb") fails in a missing folder; otherwise
\* it creates or truncates the file, and pickle.dump writes into it.
PickleStored(index, data, written) ==
    IF dirExists
    THEN Disk(dirExists,
              WriteFile(PickleFile(index), PickleDump(data), written),
              WriteOutcome(PickleDump(data), written))
    ELSE Disk(dirExists, files, Raise("FileNotFoundError"))

\* Pickle.__getitem__
PickleGet(index) ==
    IF IsFile(PickleFile(index)) THEN PickleLoad(files[PickleFile(index)])
    ELSE Raise("FileNotFoundError")

\* A clean that calls self.path.rmdir(), which refuses a folder with files.
PickleCleanedRmdir ==
    IF dirExists
    THEN IF files = EmptyDict THEN Disk(FALSE, EmptyDict, Return(None))
         ELSE Disk(dirExists, files, Raise("OSError"))
    ELSE Disk(dirExists, files, Return(None))

\* A clean without the is_dir() test: shutil.rmtree raises on a missing path.
PickleCleanedUnguarded ==
    IF dirExists THEN Disk(FALSE, EmptyDict, Return(None))
    ELSE Disk(dirExists, files, Raise("FileNotFoundError"))

\* A clean that unlinks the files carrying its own extension and keeps the
\* folder and everything else in it.
PickleCleanedOwnFiles ==
    Disk(dirExists,
         [name \in {n \in DOMAIN files : Suffix(n) # PickleExtension} |->
             files[name]],
         Return(None))

\* Pickle.clean: if self.path.is_dir(): shutil.rmtree(self.path)
PickleCleaned ==
    IF dirExists THEN Disk(FALSE, EmptyDict, Return(None))
    ELSE Disk(dirExists, files, Return(None))

\* An __exit__ that cleans only when the body raised nothing.
PickleExitCallsOnSuccess(excType) ==
    IF excType = None THEN <<"clean">> ELSE <<>>

\* Pickle.__exit__(*args): the calls on self it makes, whatever args holds.
PickleExitCalls(excType) == <<"clean">>

PickleInit ==
    /\ "Pickle" \in live
    /\ Apply(PickleMade)
    /\ Record(Call("init", "Pickle", -1, None, PickleMade.out, <<>>))
    /\ UNCHANGED <<live, cache, entered>>

\* A __contains__ that looks the name up in os.listdir(self.path).
PickleContainsListdir(index) ==
    /\ "Pickle" \in live
    /\ Record(Call("contains", "Pickle", index, None,
                   IF dirExists
                   THEN Return(Bool(PickleFile(index) \in DOMAIN files))
                   ELSE Raise("FileNotFoundError"), <<>>))
    /\ UNCHANGED <<live, cache, dirExists, files, entered>>

PickleContains(index) ==
    /\ "Pickle" \in live
    /\ Record(Call("contains", "Pickle", index, None,
                   Return(Bool(PickleHas(index))), <<>>))
    /\ UNCHANGED <<live, cache, dirExists, files, entered>>

PickleSetItem(index, data, written) ==
    /\ "Pickle" \in live
    /\ Apply(PickleStored(index, data, written))
    /\ Record(Call("store", "Pickle", index, data,
                   PickleStored(index, data, written).out, <<>>))
    /\ UNCHANGED <<live, cache, entered>>

PickleGetItem(index) ==
    /\ "Pickle" \in live
    /\ Record(Call("load", "Pickle", index, None, PickleGet(index), <<>>))
    /\ UNCHANGED <<live, cache, dirExists, files, entered>>

PickleClean ==
    /\ "Pickle" \in live
    /\ Apply(PickleCleaned)
    /\ Record(Call("clean", "Pickle", -1, None, PickleCleaned.out, <<>>))
    /\ UNCHANGED <<live, cache, entered>>

\* An __enter__ that creates the folder again.
PickleEnterMkdir ==
    /\ "Pickle" \in live \ entered
    /\ entered' = entered \cup {"Pickle"}
    /\ Apply(PickleMade)
    /\ Record(Call("enter", "Pickle", -1, None, Return("self"), <<>>))
    /\ UNCHANGED <<live, cache>>

PickleEnter ==
    /\ "Pickle" \in live \ entered
    /\ entered' = entered \cup {"Pickle"}
    /\ Record(Call("enter", "Pickle", -1, None, Return("self"), <<>>))
    /\ UNCHANGED <<live, cache, dirExists, files>>

\* The with statement calls __exit__ when its body ends, with the exception
\* the body raised (excType) or None.
PickleExit(excType) ==
    /\ "Pickle" \in entered
    /\ entered' = entered \ {"Pickle"}
    /\ IF PickleExitCalls(excType) = <<"clean">>
       THEN /\ Apply(PickleCleaned)
            /\ Record(Call("exit", "Pickle", -1, excType, PickleCleaned.out,
                           PickleExitCalls(excType)))
       ELSE /\ UNCHANGED <<dirExists, files>>
            /\ Record(Call("exit", "Pickle", -1, excType, Return(None),
                           PickleExitCalls(excType)))
    /\ UNCHANGED <<live, cache>>

\* -------------------------------------------------------------------- Tensor

\* Tensor.__init__: self.path.mkdir(parents=True, exist_ok=True)
TensorMade == Disk(TRUE, files, Return(None))

\* Tensor.__contains__
TensorHas(index) == IsFile(TensorFile(index))

\* Tensor.__setitem__: torch.save opens the file for writing.
TensorStored(index, data, written) ==
    IF dirExists
    THEN Disk(dirExists,
              WriteFile(TensorFile(index), TorchSave(data), written),
              WriteOutcome(TorchSave(data), written))
    ELSE Disk(dirExists, files, Raise("FileNotFoundError"))

\* Tensor.__getitem__: the body calls torch.load and has no return
\* statement, so a load that does not raise yields None.
TensorGet(index) ==
    IF IsFile(TensorFile(index))
    THEN IF TorchLoad(files[TensorFile(index)])[1] = "raise"
         THEN TorchLoad(files[TensorFile(index)])
         ELSE Return(None)
    ELSE Raise("FileNotFoundError")

\* Tensor.clean: if self.path.is_dir(): shutil.rmtree(self.path)
TensorCleaned ==
    IF dirExists THEN Disk(FALSE, EmptyDict, Return(None))
    ELSE Disk(dirExists, files, Return(None))

\* Tensor.__exit__(*args): the calls on self it makes, whatever args holds.
TensorExitCalls(excType) == <<"clean">>

TensorInit ==
    /\ "Tensor" \in live
    /\ Apply(TensorMade)
    /\ Record(Call("init", "Tensor", -1, None, TensorMade.out, <<>>))
    /\ UNCHANGED <<live, cache, entered>>

TensorContains(index) ==
    /\ "Tensor" \in live
    /\ Record(Call("contains", "Tensor", index, None,
                   Return(Bool(TensorHas(index))), <<>>))
    /\ UNCHANGED <<live, cache, dirExists, files, entered>>

TensorSetItem(index, data, written) ==
    /\ "Tensor" \in live
    /\ Apply(TensorStored(index, data, written))
    /\ Record(Call("store", "Tensor", index, data,
                   TensorStored(index, data, written).out, <<>>))
    /\ UNCHANGED <<live, cache, entered>>

TensorGetItem(index) ==
    /\ "Tensor" \in live
    /\ Record(Call("load", "Tensor", index, None, TensorGet(index), <<>>))
    /\ UNCHANGED <<live, cache, dirExists, files, entered>>

TensorClean ==
    /\ "Tensor" \in live
    /\ Apply(TensorCleaned)
    /\ Record(Call("clean", "Tensor", -1, None, TensorCleaned.out, <<>>))
    /\ UNCHANGED <<live, cache, entered>>

TensorEnter ==
    /\ "Tensor" \in live \ entered
    /\ entered' = entered \cup {"Tensor"}
    /\ Record(Call("enter", "Tensor", -1, None, Return("self"), <<>>))
    /\ UNCHANGED <<live, cache, dirExists, files>>

TensorExit(excType) ==
    /\ "Tensor" \in entered
    /\ entered' = entered \ {"Tensor"}
    /\ IF TensorExitCalls(excType) = <<"clean">>
       THEN /\ Apply(TensorCleaned)
            /\ Record(Call("exit", "Tensor", -1, excType, TensorCleaned.out,
                           TensorExitCalls(excType)))
       ELSE /\ UNCHANGED <<dirExists, files>>
            /\ Record(Call("exit", "Tensor", -1, excType, Return(None),
                           TensorExitCalls(excType)))
    /\ UNCHANGED <<live, cache>>

\* ------------------------------------------------------- the Cacher interface

DiskCachers == {"Pickle", "Tensor"}

\* Cacher.__contains__ as cacher `on` implements it.
CacherHas(on, index) ==
    CASE on = "Memory" -> MemoryHas(index)
      [] on = "Pickle" -> PickleHas(index)
      [] on = "Tensor" -> TensorHas(index)

\* Cacher.__getitem__ as cacher `on` implements it.
CacherGet(on, index) ==
    CASE on = "Memory" -> MemoryGet(index)
      [] on = "Pickle" -> PickleGet(index)
      [] on = "Tensor" -> TensorGet(index)

\* The file cacher `on` keeps index in, and the bytes its codec writes.
CacherFile(on, index) ==
    IF on = "Pickle" THEN PickleFile(index) ELSE TensorFile(index)

CacherDump(on, data) ==
    IF on = "Pickle" THEN PickleDump(data) ELSE TorchSave(data)

\* self.extension of a disk cacher.
CacherExtension(on) ==
    IF on = "Pickle" THEN PickleExtension ELSE TensorExtension

\* ------------------------------------------------------------- specification

NoCall == Call("none", "none", -1, None, Return(None), <<>>)

\* The client has constructed one cacher: Memory() with an empty dictionary,
\* or Pickle(path) / Tensor(path) on a folder that __init__ has just created.
Init ==
    /\ live \in {{"Memory"}, {"Pickle"}, {"Tensor"}}
    /\ cache = EmptyDict
    /\ dirExists = ("Memory" \notin live)
    /\ files = EmptyDict
    /\ entered = {}
    /\ ret = Call("init", CHOOSE c \in live : TRUE, -1, None, Return(None),
                  <<>>)
    /\ prev = NoCall
    /\ procs = <<>>

Next ==
    \/ MemoryInit
    \/ \E index \in Indices : MemoryContains(index)
    \/ \E index \in Indices, data \in Values : MemorySetItem(index, data)
    \/ \E index \in Indices : MemoryGetItem(index)
    \/ PickleInit
    \/ \E index \in Indices : PickleContains(index)
    \/ \E index \in Indices, data \in Values :
          \E written \in 0..Len(PickleDump(data)) :
              PickleSetItem(index, data, written)
    \/ \E index \in Indices : PickleGetItem(index)
    \/ PickleClean
    \/ PickleEnter
    \/ \E excType \in {None, "Exception"} : PickleExit(excType)
    \/ TensorInit
    \/ \E index \in Indices : TensorContains(index)
    \/ \E index \in Indices, data \in Values :
          \E written \in 0..Len(TorchSave(data)) :
              TensorSetItem(index, data, written)
    \/ \E index \in Indices : TensorGetItem(index)
    \/ TensorClean
    \/ TensorEnter
    \/ \E excType \in {None, "Exception"} : TensorExit(excType)

Spec == Init /\ [][Next]_vars

\* ------------------------------------------- two cachers sharing one folder

\* The client has constructed Pickle(path) and then Tensor(path) on the same
\* path, both with their default extensions.
InitShared ==
    /\ live = {"Pickle", "Tensor"}
    /\ cache = EmptyDict
    /\ dirExists = TRUE
    /\ files = EmptyDict
    /\ entered = {}
    /\ ret = Call("init", "Tensor", -1, None, Return(None), <<>>)
    /\ prev = Call("init", "Pickle", -1, None, Return(None), <<>>)
    /\ procs = <<>>

\* The calls of the two cachers that write to the folder or remove it, one
\* at a time, every store running to its end. What contains and load would
\* answer is read off the folder by PickleHas, PickleGet, TensorHas and
\* TensorGet.
NextShared ==
    \/ \E index \in Indices, data \in Values :
          PickleSetItem(index, data, Len(PickleDump(data)))
    \/ PickleClean
    \/ PickleEnter
    \/ \E excType \in {None, "Exception"} : PickleExit(excType)
    \/ \E index \in Indices, data \in Values :
          TensorSetItem(index, data, Len(TorchSave(data)))
    \/ TensorClean
    \/ TensorEnter
    \/ \E excType \in {None, "Exception"} : TensorExit(excType)

SpecShared == InitShared /\ [][NextShared]_vars

\* ------------------------------ a store in its steps, beside another process

\* The two processes that call one disk cacher on one folder.
Pids == {1, 2}

\* A call about to start: a store(index, data), or a contains(index) that a
\* load(index) follows when it answers True.
Proc(role, index, data) ==
    [role |-> role, index |-> index, data |-> data,
     pc |-> IF role = "store" THEN "open" ELSE "contains",
     written |-> 0, has |-> None, out |-> <<"pending", None>>]

Running(p, role, pc) == procs[p].role = role /\ procs[p].pc = pc

\* The cacher the processes share.
Cacher == CHOOSE on \in live : TRUE

\* One byte written at the writer's own file position; a position past the
\* end of the file leaves a hole of zero bytes before it.
WriteAt(bytes, offset, byte) ==
    [k \in 1..(IF Len(bytes) > offset THEN Len(bytes) ELSE offset + 1) |->
        IF k = offset + 1 THEN byte
        ELSE IF k <= Len(bytes) THEN bytes[k] ELSE "NUL"]

\* open(path, "wb"): the file is created, or cut to length zero.
StoreOpen(p) ==
    /\ Running(p, "store", "open")
    /\ files' = [name \in DOMAIN files \cup
                          {CacherFile(Cacher, procs[p].index)} |->
                    IF name = CacherFile(Cacher, procs[p].index) THEN <<>>
                    ELSE files[name]]
    /\ procs' = [procs EXCEPT ![p].pc = "write"]
    /\ UNCHANGED <<live, cache, dirExists, entered, ret, prev>>

\* pickle.dump(data, file) / torch.save: the next byte reaches the file.
StoreWrite(p) ==
    /\ Running(p, "store", "write")
    /\ LET name == CacherFile(Cacher, procs[p].index)
           bytes == CacherDump(Cacher, procs[p].data)
           offset == procs[p].written
       IN  /\ files' = [files EXCEPT
                           ![name] = WriteAt(@, offset, bytes[offset + 1])]
           /\ procs' = [procs EXCEPT
                           ![p].written = offset + 1,
                           ![p].pc = IF offset + 1 = Len(bytes) THEN "close"
                                     ELSE "write"]
    /\ UNCHANGED <<live, cache, dirExists, entered, ret, prev>>

\* The with block ends: the file is closed and __setitem__ returns None.
StoreClose(p) ==
    /\ Running(p, "store", "close")
    /\ procs' = [procs EXCEPT ![p].pc = "done", ![p].out = Return(None)]
    /\ UNCHANGED <<live, cache, dirExists, files, entered, ret, prev>>

\* __contains__ of the other process.
ReadContains(p) ==
    /\ Running(p, "read", "contains")
    /\ procs' = [procs EXCEPT
                    ![p].has = Bool(CacherHas(Cacher, procs[p].index)),
                    ![p].pc = IF CacherHas(Cacher, procs[p].index)
                              THEN "load" ELSE "done"]
    /\ UNCHANGED <<live, cache, dirExists, files, entered, ret, prev>>

\* __getitem__ of the other process, after its __contains__ answered True.
ReadLoad(p) ==
    /\ Running(p, "read", "load")
    /\ procs' = [procs EXCEPT
                    ![p].out = CacherGet(Cacher, procs[p].index),
                    ![p].pc = "done"]
    /\ UNCHANGED <<live, cache, dirExists, files, entered, ret, prev>>

\* One disk cacher on an existing folder that is empty or holds one entry
\* a store completed earlier; process 1 is about to store, process 2 is
\* about to store or to ask contains and then load.
InitConc ==
    /\ live \in {{"Pickle"}, {"Tensor"}}
    /\ cache = EmptyDict
    /\ dirExists = TRUE
    /\ files \in {EmptyDict} \cup
           {[name \in {CacherFile(Cacher, index)} |-> CacherDump(Cacher, data)] :
               index \in Indices, data \in Values}
    /\ entered = {}
    /\ ret = Call("init", Cacher, -1, None, Return(None), <<>>)
    /\ prev = NoCall
    /\ \E i1 \in Indices, d1 \in Values, i2 \in Indices :
          \E second \in {Proc("store", i2, d2) : d2 \in Values}
                            \cup {Proc("read", i2, None)} :
              procs = [p \in Pids |->
                          IF p = 1 THEN Proc("store", i1, d1) ELSE second]

NextConc ==
    \E p \in Pids :
        \/ StoreOpen(p)
        \/ StoreWrite(p)
        \/ StoreClose(p)
        \/ ReadContains(p)
        \/ ReadLoad(p)

SpecConc == InitConc /\ [][NextConc]_vars

\* -------------------------------------------------------------------- claims

\* The call completed a store: __setitem__ returned.
StoredOk(call) == call.op = "store" /\ call.out = Return(None)

SameEntry(a, b) == a.on = b.on /\ a.index = b.index

\* The folder holds a complete entry (index, data) that cacher `on` wrote.
Holds(on, index, data) ==
    /\ IsFile(CacherFile(on, index))
    /\ files[CacherFile(on, index)] = CacherDump(on, data)

\* The entries a cacher keeps for index: its dictionary keys equal to index,
\* or the files of the folder named str(index) plus some suffix.
Entries(on, index) ==
    IF on = "Memory" THEN {k \in DOMAIN cache : k = index}
    ELSE {n \in DOMAIN files :
             SubSeq(n, 1, Len(n) - Len(Suffix(n))) = Str(index)}

\* C1: on the Memory and the Pickle cacher, right after store(i, v) has
\* completed, contains(i) is true and load(i) returns v: in the state the
\* store leaves, and as the outcome of a contains(i) or load(i) call that
\* follows the store directly.
C1_StoreThenContainsAndLoad ==
    /\ (StoredOk(ret) /\ ret.on \in {"Memory", "Pickle"}) =>
          /\ CacherHas(ret.on, ret.index)
          /\ CacherGet(ret.on, ret.index) = Return(ret.data)
    /\ (StoredOk(prev) /\ prev.on \in {"Memory", "Pickle"}
            /\ SameEntry(prev, ret)) =>
          /\ (ret.op = "contains" => ret.out = Return("True"))
          /\ (ret.op = "load" => ret.out = Return(prev.data))

\* A completed Pickle store is followed directly by a load of the same index,
\* which returns the value stored.
C1_Witness ==
    /\ StoredOk(prev) /\ prev.on = "Pickle"
    /\ ret.op = "load" /\ SameEntry(prev, ret)
    /\ ret.out = Return(prev.data)

\* C2: on the Tensor cacher, load(i) called right after a completed
\* store(i, v) returns v to the caller.
C2_TensorLoadReturnsStored ==
    (StoredOk(prev) /\ prev.on = "Tensor" /\ ret.op = "load"
        /\ SameEntry(prev, ret)) =>
    ret.out = Return(prev.data)

\* C3: in every reachable state, for every cacher and index, contains(i) is
\* true exactly when load(i) would return rather than raise.
C3_ContainsIffLoadSucceeds ==
    \A on \in live, index \in Indices :
        CacherHas(on, index) <=> (CacherGet(on, index)[1] = "return")

\* C4: a contains(i) call returns a boolean, never raises, and leaves the
\* dictionary, the folder, its files and their contents as they were, also
\* when clean() has removed the folder.
C4_ContainsIsPure ==
    [][ret'.op = "contains" =>
          /\ ret'.out \in {Return("True"), Return("False")}
          /\ UNCHANGED <<live, cache, dirExists, files, entered>>]_vars

\* contains(i) is called on the Pickle cacher right after clean() removed
\* its folder, and returns False.
C4_Witness ==
    /\ prev.op = "clean" /\ prev.on = "Pickle"
    /\ ret.op = "contains" /\ ret.on = "Pickle"
    /\ ~dirExists
    /\ ret.out = Return("False")

\* C5: on every cacher, after store(i, v1) and then store(i, v2) have
\* completed, there is exactly one entry for i and load(i) yields v2.
C5_Overwrite ==
    (StoredOk(prev) /\ StoredOk(ret) /\ SameEntry(prev, ret)) =>
        /\ Cardinality(Entries(ret.on, ret.index)) = 1
        /\ CacherGet(ret.on, ret.index) = Return(ret.data)

\* C6: constructing a disk cacher on a folder that holds a complete entry
\* (i, v) of an earlier instance with the same extension does not raise,
\* leaves every file as it was, and the new instance has contains(i) true
\* and load(i) = v.
C6_PersistsAcrossInstances ==
    [][\A on \in DiskCachers, index \in Indices, data \in Values :
          (Holds(on, index, data) /\ ret'.op = "init" /\ ret'.on = on) =>
              /\ ret'.out = Return(None)
              /\ dirExists' /\ files' = files
              /\ CacherHas(on, index)'
              /\ CacherGet(on, index)' = Return(data)]_vars

\* C7: after clean() on a disk cacher the folder does not exist, no file of
\* it is left and contains(i) is false for every index, whatever was stored
\* before.
C7_CleanRemovesEverything ==
    (ret.op = "clean") =>
        /\ ret.out = Return(None)
        /\ ~dirExists
        /\ files = EmptyDict
        /\ \A index \in Indices : ~CacherHas(ret.on, index)

\* clean() is called right after a completed store, on a folder that held
\* that entry.
C7_Witness ==
    /\ StoredOk(prev)
    /\ ret.op = "clean" /\ ret.on = prev.on
    /\ ~dirExists

\* C8: clean() called when the folder is absent, in particular right after
\* another clean(), raises nothing and changes nothing.
C8_CleanAbsentIsNoOp ==
    [][(ret'.op = "clean" /\ (~dirExists \/ ret.op = "clean")) =>
          /\ ret'.out = Return(None)
          /\ UNCHANGED <<live, cache, dirExists, files, entered>>]_vars

\* clean() is called twice in a row; the second call returns.
C8_Witness ==
    /\ prev.op = "clean" /\ ret.op = "clean" /\ ret.on = prev.on
    /\ ret.out = Return(None)
    /\ ~dirExists

\* C9: when the with-block of a disk cacher is left, with or without an
\* exception, __exit__ has called clean() exactly once, the folder does not
\* exist and the block is closed.
C9_ExitCleansOnce ==
    (ret.op = "exit") =>
        /\ Cardinality({k \in DOMAIN ret.calls : ret.calls[k] = "clean"}) = 1
        /\ ~dirExists
        /\ files = EmptyDict
        /\ ret.on \notin entered

\* The body of a with-block stored an entry and then raised.
C9_Witness ==
    /\ StoredOk(prev)
    /\ ret.op = "exit" /\ ret.on = prev.on /\ ret.data = "Exception"
    /\ ~dirExists

\* C10, as stated: in every reachable state of a disk cacher, also after
\* clean(), store(i, v) completes without error and contains(i) is true
\* afterwards.  (A store that an I/O error of the write interrupts is left
\* aside: what is stated here is implied by the claim.)
C10_StoreAlwaysCompletes ==
    (ret.op = "store" /\ ret.on \in DiskCachers
        /\ ret.out # Raise("OSError")) =>
    (ret.out = Return(None) /\ CacherHas(ret.on, ret.index))

\* C10, amended: while the folder exists, store(i, v) either completes or
\* ends in the error of its write, and once it has completed contains(i) is
\* true; while the folder is absent, store(i, v) raises FileNotFoundError,
\* creates neither folder nor file, and contains(i) stays false.
C10_StoreNeedsFolder ==
    [][\A on \in DiskCachers, index \in Indices :
          (ret'.op = "store" /\ ret'.on = on /\ ret'.index = index) =>
              IF dirExists
              THEN /\ ret'.out \in {Return(None), Raise("OSError")}
                   /\ dirExists'
                   /\ (ret'.out = Return(None) => CacherHas(on, index)')
              ELSE /\ ret'.out = Raise("FileNotFoundError")
                   /\ UNCHANGED <<dirExists, files>>
                   /\ ~CacherHas(on, index)']_vars

\* store(i, v) is called right after clean() and raises FileNotFoundError.
C10_Witness ==
    /\ prev.op = "clean"
    /\ ret.op = "store" /\ ret.on = prev.on
    /\ ret.out = Raise("FileNotFoundError")
    /\ ~dirExists

C12_NeverStoredNotContained ==
    /\ (prev = NoCall \/ (ret.op = "init" /\ ret.on = "Memory")) =>
          \A on \in live, index \in Indices : ~CacherHas(on, index)
    /\ [][\A on \in live, index \in Indices :
             (~CacherHas(on, index) /\ CacherHas(on, index)') =>
                 (ret'.op = "store" /\ ret'.on = on /\ ret'.index = index)]_vars

\* One index has been stored on the Pickle cacher and the other index is
\* still not contained.
C12_Witness ==
    /\ StoredOk(ret) /\ ret.on = "Pickle"
    /\ \E index \in Indices : index # ret.index /\ ~PickleHas(index)
    /\ PickleHas(ret.index)

\* C13: the files of a disk cacher's folder are named str(i) followed by the
\* extension, for indices i: a store(i, .) in an existing folder leaves the
\* file of that name and adds no other, no other call adds a file, and
\* contains(i) and load(i) look at that name.
C13_OneFilePerIndex ==
    /\ \A on \in live \cap DiskCachers :
          /\ \A name \in DOMAIN files : \E index \in Indices :
                name = Str(index) \o CacherExtension(on)
          /\ \A index \in Indices :
                /\ CacherHas(on, index) <=>
                      (dirExists /\ Str(index) \o CacherExtension(on)
                                        \in DOMAIN files)
                /\ (CacherGet(on, index) = Raise("FileNotFoundError")) <=>
                      ~(dirExists /\ Str(index) \o CacherExtension(on)
                                         \in DOMAIN files)
    /\ [][/\ DOMAIN files' \subseteq DOMAIN files \cup
                (IF ret'.op = "store"
                 THEN {Str(ret'.index) \o CacherExtension(ret'.on)} ELSE {})
          /\ (ret'.op = "store" /\ ret'.on \in DiskCachers /\ dirExists) =>
                Str(ret'.index) \o CacherExtension(ret'.on) \in DOMAIN files'
          /\ (ret'.op = "store" /\ ret'.on \in DiskCachers
                  /\ ret'.out = Return(None)) =>
                files'[Str(ret'.index) \o CacherExtension(ret'.on)] =
                    CacherDump(ret'.on, ret'.data)]_vars

\* Both indices have been stored on the Tensor cacher: the folder holds
\* 0.pt and 1.pt and nothing else.
C13_Witness ==
    /\ StoredOk(ret) /\ StoredOk(prev) /\ ret.on = "Tensor"
    /\ prev.index # ret.index
    /\ DOMAIN files = {<<Digit(prev.index), ".", "p", "t">>,
                       <<Digit(ret.index), ".", "p", "t">>}

\* C14: a store(i, v) call, completed or not, leaves contains(j) and the
\* outcome of load(j) as they were for every other index j.
C14_StoreTouchesOnlyItsIndex ==
    [][(ret'.op = "store") =>
          \A on \in live, j \in Indices :
              (ret'.on = on /\ ret'.index # j) =>
                  /\ CacherHas(on, j)' = CacherHas(on, j)
                  /\ CacherGet(on, j)' = CacherGet(on, j)]_vars

\* Memory: store(i, a) then store(j, b) with j # i; load(i) is still a.
C14_Witness ==
    /\ StoredOk(prev) /\ StoredOk(ret) /\ ret.on = "Memory"
    /\ prev.on = "Memory" /\ prev.index # ret.index /\ prev.data # ret.data
    /\ MemoryGet(prev.index) = Return(prev.data)
    /\ MemoryGet(ret.index) = Return(ret.data)

\* C19: load(i) while contains(i) is false raises KeyError on the Memory
\* cacher and FileNotFoundError on the disk cachers, and leaves everything
\* as it was: contains(i) is still false.
C19_LoadOfAbsentRaises ==
    [][\A on \in live, index \in Indices :
          (ret'.op = "load" /\ ret'.on = on /\ ret'.index = index
              /\ ~CacherHas(on, index)) =>
              /\ ret'.out = Raise(IF on = "Memory" THEN "KeyError"
                                  ELSE "FileNotFoundError")
              /\ UNCHANGED <<live, cache, dirExists, files, entered>>
              /\ ~CacherHas(on, index)']_vars

\* load(i) of an index that contains(i) has just reported absent.
C19_Witness ==
    /\ prev.op = "contains" /\ prev.out = Return("False")
    /\ ret.op = "load" /\ SameEntry(prev, ret)
    /\ ret.out = Raise("KeyError")

\* C20: when a Pickle store(i, v2) ends in an error of its write, the entry
\* a completed store(i, v1) left just before is intact, load(i) = v1; and
\* an index without an entry before the failed store has none after it.
C20_FailedStoreKeepsEntry ==
    /\ (StoredOk(prev) /\ ret.op = "store" /\ ret.on = "Pickle"
            /\ SameEntry(prev, ret) /\ ret.out = Raise("OSError")) =>
          PickleGet(ret.index) = Return(prev.data)
    /\ (prev.op = "contains" /\ prev.out = Return("False")
            /\ ret.op = "store" /\ ret.on = "Pickle" /\ SameEntry(prev, ret)
            /\ ret.out = Raise("OSError")) =>
          ~PickleHas(ret.index)

\* C17: with a Pickle and a Tensor cacher on one folder, after clean() or
\* the end of the with-block of either, neither cacher contains any index,
\* whichever of the two stored it.
C17_CleanEmptiesSharedFolder ==
    (ret.op \in {"clean", "exit"}) =>
        /\ \A on \in live, index \in Indices : ~CacherHas(on, index)
        /\ ret.out = Return(None)
        /\ files = EmptyDict /\ ~dirExists

\* The Tensor cacher has stored an index and the Pickle cacher has then
\* cleaned the folder.
C17_Witness ==
    /\ live = {"Pickle", "Tensor"}
    /\ StoredOk(prev) /\ prev.on = "Tensor"
    /\ ret.op \in {"clean", "exit"} /\ ret.on = "Pickle"
    /\ ~TensorHas(prev.index)

\* C18: with a Pickle and a Tensor cacher on one folder, a store(i, v) on
\* one of them leaves contains(j) and the outcome of load(j) of the other
\* as they were, for every index j; the two never name the same file.
C18_DefaultExtensionsDoNotCollide ==
    /\ \A i \in Indices, j \in Indices : PickleFile(i) # TensorFile(j)
    /\ [][\A on \in DiskCachers, other \in DiskCachers, j \in Indices :
             (ret'.op = "store" /\ ret'.on = on /\ other # on) =>
                 /\ CacherHas(other, j)' = CacherHas(other, j)
                 /\ CacherGet(other, j)' = CacherGet(other, j)]_vars

\* The Pickle cacher has stored an index in the shared folder and can load
\* it; the Tensor cacher does not contain that index.
C18_Witness ==
    /\ live = {"Pickle", "Tensor"}
    /\ StoredOk(ret) /\ ret.on = "Pickle"
    /\ PickleHas(ret.index) /\ ~TensorHas(ret.index)
    /\ PickleGet(ret.index) = Return(ret.data)

\* C15: two processes store different indices on one disk cacher, their
\* open, write and close steps interleaved in any order; when both are done
\* both stores have returned, both indices are contained, and load gives
\* each index the value stored under it.
C15_DisjointStoresBothLand ==
    (/\ \A p \in Pids : procs[p].role = "store" /\ procs[p].pc = "done"
     /\ procs[1].index # procs[2].index) =>
        \A p \in Pids :
            /\ procs[p].out = Return(None)
            /\ CacherHas(Cacher, procs[p].index)
            /\ CacherGet(Cacher, procs[p].index) = Return(procs[p].data)

\* C16: one process stores index i on the Pickle cacher in the steps open,
\* write, close while another asks contains(i) and then load(i); whenever
\* contains answered True, the load returns a value.
C16_ContainsThenLoadSucceeds ==
    \A p \in Pids :
        (/\ "Pickle" \in live
         /\ procs[p].role = "read" /\ procs[p].pc = "done"
         /\ procs[p].has = "True") =>
            procs[p].out \in {Return(data) : data \in Values}

====
